---------------------------- MODULE Spec2Model ----------------------------
(***************************************************************************)
(* A model of gpw::foundation::node, tree and digraph                      *)
(* (src/network/include/node.hpp, tree.hpp, digraph.hpp).                  *)
(*                                                                         *)
(* A node is a record [addr, label, data, edges]: addr is the address of   *)
(* the object inside its owning std::list (stable while the node lives),   *)
(* edges is the std::list<node*> of raw pointers, i.e. a sequence of       *)
(* addresses.  A digraph is the sequence of its nodes in list order.       *)
(***************************************************************************)
EXTENDS Naturals, Sequences, FiniteSets

\* ------------------------------------------------------------------ bounds
\* Labels and payloads the operations draw their inputs from.
Labels == {"A", "B", "C"}
Data == {0, 1}
\* Cap on the total number of edges the modelled digraph may hold.
MaxEdges == 2
\* Labels of free-standing node objects; two objects may carry one label.
NodeLabels == {"a", "b"}
\* Cap on the total number of adjacency entries the free-standing nodes hold.
MaxNodeEdges == 3
\* Labels the calls on a tree draw their arguments from.
TreeLabels == {"A", "B", "C", "D"}
\* Cap on the number of nodes of the modelled tree.
MaxTreeSize == 3

\* What reading a label through a pointer to no live node yields.
Garbage == "?"

VARIABLES
    nodes,              \* digraph::_nodes
    lastOp,             \* the most recent call on the digraph: its arguments, and
                        \* size, edge count and in-degree of t before the call
    abstract,           \* the label set V and the set E of label pairs that the
                        \* calls made so far describe
    labeled_graph,      \* make_depth_first_forest: the snapshot `nodes`
    depth_first_forest, \* the forest under construction (a list of trees)
    tree_arcs, back_arcs, loops, fwd_arcs, cross_arcs,
    call_stack,         \* activation records of the recursive overload
    dff_pc,             \* where the forest computation stands
    components,         \* what scc_from_forest handed back
    objects,            \* node objects that no digraph owns
    nodeOp,             \* the most recent call on one of them: its arguments
                        \* and the adjacency list of the receiver before it
    tree_nodes,         \* tree::_nodes of a tree object
    treeOp              \* the most recent call on the tree: its arguments and
                        \* tree::_nodes before it

dvars == <<nodes, lastOp, abstract>>
fvars == <<labeled_graph, depth_first_forest, tree_arcs, back_arcs, loops,
           fwd_arcs, cross_arcs, call_stack, dff_pc, components>>
nvars == <<objects, nodeOp>>
tvars == <<tree_nodes, treeOp>>
vars == <<dvars, fvars, nvars, tvars>>

\* ------------------------------------------------------------ node.hpp
Range(s) == {s[i] : i \in 1..Len(s)}

\* ptr->label(): the label of the node living at address p.
LabelOf(ns, p) ==
    IF \E i \in 1..Len(ns) : ns[i].addr = p
    THEN LET i == CHOOSE j \in 1..Len(ns) : ns[j].addr = p IN ns[i].label
    ELSE Garbage

\* node::is_connected looking at the newest entry only.
node_is_connected_back(edges, p) == edges # <<>> /\ edges[Len(edges)] = p

\* node::is_connected: std::find on the pointer value.
node_is_connected(edges, p) == \E i \in 1..Len(edges) : edges[i] = p

\* node::connect without the test for an entry that is there already.
node_connect_unchecked(edges, p) == Append(edges, p)

\* node::connect
node_connect(edges, p) ==
    IF node_is_connected(edges, p) THEN edges ELSE Append(edges, p)

\* node::disconnect(node&): std::list::remove of the pointer value.
node_disconnect(edges, p) == SelectSeq(edges, LAMBDA q : q # p)

\* node::disconnect(const std::string&) with the predicate inverted.
node_disconnect_label_inverted(ns, edges, label) ==
    SelectSeq(edges, LAMBDA q : LabelOf(ns, q) = label)

\* node::disconnect(const std::string&) erasing the first match only.
node_disconnect_label_first(ns, edges, label) ==
    IF \E i \in 1..Len(edges) : LabelOf(ns, edges[i]) = label
    THEN LET i == CHOOSE j \in 1..Len(edges) :
                     /\ LabelOf(ns, edges[j]) = label
                     /\ \A k \in 1..(j - 1) : LabelOf(ns, edges[k]) # label
         IN  SubSeq(edges, 1, i - 1) \o SubSeq(edges, i + 1, Len(edges))
    ELSE edges

\* node::disconnect(const std::string&): erase_if on the pointee's label.
node_disconnect_label(ns, edges, label) ==
    SelectSeq(edges, LAMBDA q : LabelOf(ns, q) # label)

\* node::count_connections
node_count_connections(edges) == Len(edges)

\* --------------------------------------------------------- digraph.hpp
\* digraph::node_with_label: position of the first node with the label,
\* Len(ns) + 1 standing for _nodes.end().
End(ns) == Len(ns) + 1

node_with_label(ns, label) ==
    IF \E i \in 1..Len(ns) : ns[i].label = label
    THEN CHOOSE i \in 1..Len(ns) :
            /\ ns[i].label = label
            /\ \A j \in 1..(i - 1) : ns[j].label # label
    ELSE End(ns)

\* digraph::create_node without the lookup of the label.
create_node_unchecked(ns, label, data, addr) ==
    Append(ns, [addr |-> addr, label |-> label, data |-> data, edges |-> <<>>])

\* digraph::create_node; addr is where emplace_back places the new node.
create_node(ns, label, data, addr) ==
    IF node_with_label(ns, label) # End(ns)
    THEN ns
    ELSE Append(ns, [addr |-> addr, label |-> label, data |-> data, edges |-> <<>>])

\* digraph::remove_node without the loop that disconnects the label.
remove_node_unscrubbed(ns, label) == SelectSeq(ns, LAMBDA n : n.label # label)

\* digraph::remove_node with the loop starting at the second node.
remove_node_skip_first(ns, label) ==
    LET scrubbed == [i \in 1..Len(ns) |->
                        IF i = 1 THEN ns[i]
                        ELSE [ns[i] EXCEPT !.edges = node_disconnect_label(ns, @, label)]]
    IN  SelectSeq(scrubbed, LAMBDA n : n.label # label)

\* digraph::remove_node
remove_node(ns, label) ==
    LET scrubbed == [i \in 1..Len(ns) |->
                        [ns[i] EXCEPT !.edges = node_disconnect_label(ns, @, label)]]
    IN  SelectSeq(scrubbed, LAMBDA n : n.label # label)

\* digraph::connect_node
connect_node(ns, hl, tl) ==
    LET head == node_with_label(ns, hl)
        tail == node_with_label(ns, tl)
    IN  IF head = End(ns) \/ tail = End(ns)
        THEN ns
        ELSE [ns EXCEPT ![head].edges = node_connect(@, ns[tail].addr)]

\* digraph::is_connected with head and tail exchanged.
is_connected_reversed(ns, hl, tl) ==
    LET head == node_with_label(ns, hl)
        tail == node_with_label(ns, tl)
    IN  IF head = End(ns) \/ tail = End(ns)
        THEN FALSE
        ELSE node_is_connected(ns[tail].edges, ns[head].addr)

\* digraph::is_connected
is_connected(ns, hl, tl) ==
    LET head == node_with_label(ns, hl)
        tail == node_with_label(ns, tl)
    IN  IF head = End(ns) \/ tail = End(ns)
        THEN FALSE
        ELSE node_is_connected(ns[head].edges, ns[tail].addr)

\* digraph::size
size(ns) == Len(ns)

\* digraph::count_connections: std::accumulate from 0 over the nodes.
RECURSIVE Accumulate(_, _)
Accumulate(ns, acc) ==
    IF ns = <<>> THEN acc
    ELSE Accumulate(Tail(ns), node_count_connections(Head(ns).edges) + acc)

count_connections(ns) == Accumulate(ns, 0)

\* Where emplace_back places the node made for a label.  The operations only
\* compare addresses for equality, so one placement stands for all; the one
\* taken gives a re-created label the address its predecessor had, which is
\* the placement where a pointer left behind would meet the new node.
AddrOf(label) == <<"node", label>>

\* ------------------------------------------------------------ tree.hpp
\* A tree is the sequence of its nodes in list order, the root first.  The
\* list only grows, so a node pointer is the node's position; 0 is nullptr.
\* A tree node is [label, data, edges], edges a sequence of positions.
DefaultData == 0

\* tree::_create_node
tree_create_node(t, label, data) ==
    Append(t, [label |-> label, data |-> data, edges |-> <<>>])

\* tree::tree
tree_new(label, data) == tree_create_node(<<>>, label, data)

\* tree::_find_node
find_node(t, label) ==
    IF \E i \in 1..Len(t) : t[i].label = label
    THEN CHOOSE i \in 1..Len(t) :
            /\ t[i].label = label
            /\ \A j \in 1..(i - 1) : t[j].label # label
    ELSE 0

\* tree::append_node without the lookup of the new label.
append_node_unchecked(t, parent_label, label, data) ==
    LET parent_ptr == find_node(t, parent_label) IN
    IF parent_ptr = 0 THEN t
    ELSE LET grown == tree_create_node(t, label, data) IN
         [grown EXCEPT ![parent_ptr].edges = node_connect(@, Len(grown))]

\* tree::append_node connecting the new node to its parent.
append_node_reversed(t, parent_label, label, data) ==
    IF find_node(t, label) # 0 THEN t
    ELSE LET parent_ptr == find_node(t, parent_label) IN
         IF parent_ptr = 0 THEN t
         ELSE LET grown == tree_create_node(t, label, data) IN
              [grown EXCEPT ![Len(grown)].edges = node_connect(@, parent_ptr)]

\* tree::append_node
append_node(t, parent_label, label, data) ==
    IF find_node(t, label) # 0 THEN t
    ELSE LET parent_ptr == find_node(t, parent_label) IN
         IF parent_ptr = 0 THEN t
         ELSE LET grown == tree_create_node(t, label, data) IN
              [grown EXCEPT ![parent_ptr].edges = node_connect(@, Len(grown))]

\* tree::_depth_first_search (root, dst, stack): the result and the stack
\* as the call leaves it.
RECURSIVE depth_first_search(_, _, _, _)
RECURSIVE depth_first_children(_, _, _, _, _)
\* The for loop of _depth_first_search without the pop_back that follows a
\* child under which dst was not found.
depth_first_children_nopop(t, root, dst, stack, i) ==
    IF i > Len(t[root].edges) THEN [found |-> FALSE, stack |-> stack]
    ELSE LET child == t[root].edges[i]
             r == depth_first_search(t, child, dst, Append(stack, child))
         IN  IF r.found THEN r
             ELSE depth_first_children(t, root, dst, r.stack, i + 1)

depth_first_search(t, root, dst, stack) ==
    IF root = dst THEN [found |-> TRUE, stack |-> stack]
    ELSE depth_first_children(t, root, dst, stack, 1)

\* The for loop of _depth_first_search from the i-th child on.
depth_first_children(t, root, dst, stack, i) ==
    IF i > Len(t[root].edges) THEN [found |-> FALSE, stack |-> stack]
    ELSE LET child == t[root].edges[i]
             r == depth_first_search(t, child, dst, Append(stack, child))
         IN  IF r.found THEN r
             ELSE depth_first_children(t, root, dst,
                                       SubSeq(r.stack, 1, Len(r.stack) - 1), i + 1)

\* tree::is_descendent_of
is_descendent_of(t, label, current_node_label) ==
    LET current_node_ptr == find_node(t, current_node_label)
        descendent_ptr == find_node(t, label)
    IN  IF current_node_ptr = 0 THEN FALSE
        ELSE IF descendent_ptr = 0 THEN FALSE
        ELSE depth_first_search(t, current_node_ptr, descendent_ptr,
                                <<current_node_ptr>>).found

\* tree::is_ancestor_of handing its arguments on in the order it got them.
is_ancestor_of_unswapped(t, label, current_node_label) ==
    is_descendent_of(t, label, current_node_label)

\* tree::is_ancestor_of
is_ancestor_of(t, label, current_node_label) ==
    is_descendent_of(t, current_node_label, label)

\* tree::contains_node
contains_node(t, label) == find_node(t, label) # 0

\* tree::root: _nodes.front()
root(t) == 1

\* tree::_depth_first_search (dst): the labels of the stack the search left.
depth_first_path(t, dst) ==
    LET r == depth_first_search(t, root(t), dst, <<root(t)>>)
    IN  IF r.found THEN [i \in 1..Len(r.stack) |-> t[r.stack[i]].label] ELSE <<>>

\* tree::_breath_first_search (dst, queue, node_pairs): the result, node_pairs
\* as the call leaves it, and the number of activations it took (calls counts
\* the one being evaluated).
RECURSIVE breath_first_search(_, _, _, _, _)
breath_first_search(t, dst, queue, node_pairs, calls) ==
    LET current == Head(queue) IN
    IF current = dst
    THEN [found |-> TRUE, node_pairs |-> node_pairs, calls |-> calls]
    ELSE LET children == t[current].edges
             pairs == node_pairs \o [i \in 1..Len(children) |-> <<children[i], current>>]
             popped == Tail(queue) \o children
         IN  IF Len(popped) = 0
             THEN [found |-> FALSE, node_pairs |-> pairs, calls |-> calls]
             ELSE breath_first_search(t, dst, popped, pairs, calls + 1)

\* The while loop of _breath_first_search (dst): the labels from current up
\* to the node whose recorded parent is nullptr.  A pointer with no pair
\* makes find_if return end(); what is read there is Garbage.
RECURSIVE backtrack(_, _, _, _)
backtrack(t, node_pairs, current, acc) ==
    IF current = 0 THEN acc
    ELSE IF \A k \in 1..Len(node_pairs) : node_pairs[k][1] # current
    THEN Append(Append(acc, t[current].label), Garbage)
    ELSE LET backstep == CHOOSE k \in 1..Len(node_pairs) :
                            /\ node_pairs[k][1] = current
                            /\ \A j \in 1..(k - 1) : node_pairs[j][1] # current
         IN  backtrack(t, node_pairs, node_pairs[backstep][2],
                       Append(acc, t[current].label))

\* std::copy from crbegin() to crend()
Reverse(s) == [i \in 1..Len(s) |-> s[Len(s) + 1 - i]]

\* tree::_breath_first_search (dst) copying backtrack front to back.
breath_first_path_unreversed(t, dst) ==
    LET r == breath_first_search(t, dst, <<root(t)>>, <<<<root(t), 0>>>>, 1)
    IN  IF r.found THEN backtrack(t, r.node_pairs, dst, <<>>) ELSE <<>>

\* tree::_breath_first_search (dst)
breath_first_path(t, dst) ==
    LET r == breath_first_search(t, dst, <<root(t)>>, <<<<root(t), 0>>>>, 1)
    IN  IF r.found THEN Reverse(backtrack(t, r.node_pairs, dst, <<>>)) ELSE <<>>

\* tree::path
path(t, dst, method) ==
    LET dst_ptr == find_node(t, dst)
    IN  IF dst_ptr = 0 THEN <<>>
        ELSE IF method = "depth" THEN depth_first_path(t, dst_ptr)
        ELSE breath_first_path(t, dst_ptr)

\* ------------------------------------- digraph.hpp: depth-first forest
\* Depth of recursion the call stack holds before it is exhausted.
MaxDepth == 6

\* digraph::make_labeled_graph
make_labeled_graph(ns) ==
    [i \in 1..Len(ns) |->
        [status |-> "pristine",
         label  |-> ns[i].label,
         edges  |-> [j \in 1..Len(ns[i].edges) |-> LabelOf(ns, ns[i].edges[j])]]]

\* std::find_if (nodes.begin(), nodes.end(), label == edge_label)
find_label(lg, label) ==
    IF \E i \in 1..Len(lg) : lg[i].label = label
    THEN CHOOSE i \in 1..Len(lg) :
            /\ lg[i].label = label
            /\ \A j \in 1..(i - 1) : lg[j].label # label
    ELSE End(lg)

\* std::find_if (nodes.rbegin(), nodes.rend(), status == visited), as the
\* position visited_itr.base() - 1; 0 stands for rend().
find_visited(lg) ==
    IF \E i \in 1..Len(lg) : lg[i].status = "visited"
    THEN CHOOSE i \in 1..Len(lg) :
            /\ lg[i].status = "visited"
            /\ \A j \in (i + 1)..Len(lg) : lg[j].status # "visited"
    ELSE 0

\* std::find_if (nodes.begin(), nodes.end(), status == pristine)
find_pristine(lg) ==
    IF \E i \in 1..Len(lg) : lg[i].status = "pristine"
    THEN CHOOSE i \in 1..Len(lg) :
            /\ lg[i].status = "pristine"
            /\ \A j \in 1..(i - 1) : lg[j].status # "pristine"
    ELSE End(lg)

\* An activation record of the recursive overload: the node it was called
\* on, where it stands, and the edge its for loop takes next.
Frame(cur) == [cur |-> cur, phase |-> "entry", i |-> 1]

Top == call_stack[Len(call_stack)]

\* A recursive call on node position idx, made with the stack as stk.
CallOn(stk, idx) ==
    IF Len(stk) < MaxDepth
    THEN /\ call_stack' = Append(stk, Frame(idx))
         /\ dff_pc' = "running"
    ELSE /\ call_stack' = stk
         /\ dff_pc' = "stack_overflow"

\* The return of the innermost call.
ReturnFrom(stk) ==
    /\ call_stack' = SubSeq(stk, 1, Len(stk) - 1)
    /\ dff_pc' = IF Len(stk) = 1 THEN "returned" ELSE "running"

\* The tail of the completed branch: mark the first pristine node visited
\* and open a new tree for it.
OpenNewTree ==
    LET pristine_itr == find_pristine(labeled_graph) IN
    IF pristine_itr = End(labeled_graph)
    THEN UNCHANGED <<labeled_graph, depth_first_forest>>
    ELSE /\ labeled_graph' =
                [labeled_graph EXCEPT ![pristine_itr].status = "visited"]
         /\ depth_first_forest' =
                Append(depth_first_forest,
                       tree_new(labeled_graph[pristine_itr].label, DefaultData))

\* The class the else branch of the edge loop gives an arc into a node that
\* is not pristine: the tests in the order the code makes them.
classify(t, cur, itr, cur_label, itr_label) ==
    IF is_ancestor_of(t, itr_label, cur_label) THEN "back"
    ELSE IF cur = itr THEN "loop"
    ELSE IF is_descendent_of(t, itr_label, cur_label) THEN "fwd"
    ELSE "cross"

\* What scc_from_forest may hand back: its body is empty, so control flows
\* off the end of a value-returning function and the caller reads whatever
\* the return slot holds.
SccOutcomes == UNION {[1..n -> SUBSET Labels] : n \in 0..2}

\* --------------------------------------------- the digraph seen abstractly
\* The labels present and the (head, tail) pairs is_connected reports.
Has(ns, l) == \E i \in 1..Len(ns) : ns[i].label = l
V(ns) == {ns[i].label : i \in 1..Len(ns)}
E(ns) == {e \in Labels \X Labels : is_connected(ns, e[1], e[2])}
LiveAddrs(ns) == {ns[i].addr : i \in 1..Len(ns)}

\* The abstract digraph: a set V of labels and a set E of pairs of labels,
\* with the three operations on it.  A pair is in E exactly when
\* connect_node was called for it while both labels were in V and neither
\* has been removed since.
AbstractEmpty == [V |-> {}, E |-> {}]
AbstractCreate(g, l) == [g EXCEPT !.V = @ \cup {l}]
AbstractRemove(g, l) ==
    [V |-> g.V \ {l}, E |-> {e \in g.E : e[1] # l /\ e[2] # l}]
AbstractConnect(g, h, t) ==
    IF h \in g.V /\ t \in g.V THEN [g EXCEPT !.E = @ \cup {<<h, t>>}] ELSE g

\* ----------------------------------------------- actions of the digraph
\* No forest computation is in progress.
ForestIdle ==
    /\ labeled_graph = <<>>
    /\ depth_first_forest = <<>>
    /\ tree_arcs = <<>>
    /\ back_arcs = <<>>
    /\ loops = <<>>
    /\ fwd_arcs = <<>>
    /\ cross_arcs = <<>>
    /\ call_stack = <<>>
    /\ dff_pc = "idle"
    /\ components = <<>>

\* The record of a call op on the node object at position v, with the pointer
\* or the label it was given and the adjacency list it met.
NodeCall(op, v, x, label, edges0) ==
    [op |-> op, v |-> v, x |-> x, label |-> label, edges0 |-> edges0]

\* No free-standing node object exists.
NodesIdle ==
    /\ objects = <<>>
    /\ nodeOp = NodeCall("none", 0, <<>>, "", <<>>)

\* The record of a call op (a, b) on the tree whose constructor was given the
\* label made, with the search method if it takes one, tree::_nodes as the
\* call met it, and what the call returned.
TreeCall(op, made, a, b, method, nodes0, result) ==
    [op |-> op, made |-> made, a |-> a, b |-> b, method |-> method,
     nodes0 |-> nodes0, result |-> result]

\* No tree object exists.
TreeIdle ==
    /\ tree_nodes = <<>>
    /\ treeOp = TreeCall("none", "", "", "", "", <<>>, FALSE)

\* The number of nodes other than the one labelled l that hold an edge to it.
InDegree(ns, l) ==
    Cardinality({i \in 1..Len(ns) : ns[i].label # l /\ is_connected(ns, ns[i].label, l)})

\* The record of a call op (h, t) made on the digraph ns.
Call(op, h, t, ns) ==
    [op |-> op, h |-> h, t |-> t, size0 |-> size(ns),
     count0 |-> count_connections(ns), in0 |-> InDegree(ns, t)]

\* digraph::digraph
Init ==
    /\ nodes = <<>>
    /\ lastOp = Call("digraph", "", "", <<>>)
    /\ abstract = AbstractEmpty
    /\ ForestIdle
    /\ NodesIdle
    /\ TreeIdle

CreateNode ==
    \E l \in Labels, d \in Data :
        /\ nodes' = create_node(nodes, l, d, AddrOf(l))
        /\ lastOp' = Call("create_node", l, l, nodes)
        /\ abstract' = AbstractCreate(abstract, l)
        /\ UNCHANGED <<fvars, nvars, tvars>>

RemoveNode ==
    \E l \in Labels :
        /\ nodes' = remove_node(nodes, l)
        /\ lastOp' = Call("remove_node", l, l, nodes)
        /\ abstract' = AbstractRemove(abstract, l)
        /\ UNCHANGED <<fvars, nvars, tvars>>

ConnectNode ==
    \E hl \in Labels, tl \in Labels :
        /\ count_connections(connect_node(nodes, hl, tl)) <= MaxEdges
        /\ nodes' = connect_node(nodes, hl, tl)
        /\ lastOp' = Call("connect_node", hl, tl, nodes)
        /\ abstract' = AbstractConnect(abstract, hl, tl)
        /\ UNCHANGED <<fvars, nvars, tvars>>

Next == CreateNode \/ RemoveNode \/ ConnectNode

Spec == Init /\ [][Next]_vars

\* C5: after any sequence of create_node, remove_node and connect_node every
\* adjacency entry of every owned vertex is the address of a vertex that is
\* in the digraph, and a vertex that create_node has just made is the target
\* of no entry (nothing survives from a removed vertex of the same label).
AdjacencyRefersToPresentVertices ==
    /\ \A i \in 1..Len(nodes) : \A j \in 1..Len(nodes[i].edges) :
            nodes[i].edges[j] \in LiveAddrs(nodes)
    /\ (lastOp.op = "create_node" /\ size(nodes) > lastOp.size0) =>
            \A i \in 1..Len(nodes) : \A j \in 1..Len(nodes[i].edges) :
                nodes[i].edges[j] # nodes[Len(nodes)].addr

\* A vertex that other vertices pointed at has just been removed, and
\* vertices remain.
RemovedATargetedVertex ==
    /\ lastOp.op = "remove_node"
    /\ lastOp.in0 >= 1
    /\ size(nodes) = lastOp.size0 - 1
    /\ size(nodes) >= 1

\* C6: no two owned vertices ever have the same label; create_node with a
\* label that exists leaves the digraph as it is, and create_node with a new
\* label appends exactly one vertex, without edges, at the end.
CreateNodeKeepsLabelsUnique ==
    [][ /\ \A i, j \in 1..Len(nodes') : i # j => nodes'[i].label # nodes'[j].label
        /\ lastOp'.op = "create_node" =>
              IF Has(nodes, lastOp'.h)
              THEN nodes' = nodes
              ELSE /\ Len(nodes') = Len(nodes) + 1
                   /\ SubSeq(nodes', 1, Len(nodes)) = nodes
                   /\ nodes'[Len(nodes')].label = lastOp'.h
                   /\ nodes'[Len(nodes')].edges = <<>>
                   /\ E(nodes') = E(nodes) ]_vars

\* create_node has just been called with a label that was there, on a
\* digraph with several vertices and an edge.
CreatedExistingLabel ==
    /\ lastOp.op = "create_node"
    /\ size(nodes) = lastOp.size0
    /\ size(nodes) >= 2
    /\ count_connections(nodes) >= 1

\* C7: remove_node of a present label removes exactly that vertex and exactly
\* the adjacency entries that point at it; every other vertex keeps its
\* place relative to the others, its data and its other entries in order.
RemoveNodeRemovesVertexAndIncidentEdges ==
    [][ (lastOp'.op = "remove_node" /\ Has(nodes, lastOp'.h)) =>
          LET l == lastOp'.h
              gone == nodes[CHOOSE i \in 1..Len(nodes) : nodes[i].label = l].addr
              rest == SelectSeq(nodes, LAMBDA n : n.addr # gone)
          IN  /\ Len(nodes') = Len(nodes) - 1
              /\ Len(rest) = Len(nodes')
              /\ \A k \in 1..Len(rest) :
                    /\ nodes'[k].addr = rest[k].addr
                    /\ nodes'[k].label = rest[k].label
                    /\ nodes'[k].data = rest[k].data
                    /\ nodes'[k].edges = SelectSeq(rest[k].edges, LAMBDA q : q # gone)
              /\ E(nodes') = {e \in E(nodes) : e[1] # l /\ e[2] # l} ]_vars

\* remove_node has just taken one of three vertices away, and with it both
\* edges of the digraph, one of them an edge from another vertex.
RemovedVertexWithEdges ==
    /\ lastOp.op = "remove_node"
    /\ lastOp.size0 = 3
    /\ size(nodes) = 2
    /\ lastOp.in0 >= 1
    /\ lastOp.count0 = 2
    /\ count_connections(nodes) = 0

\* C8: the digraph refines the abstract pair (V, E): after any sequence of
\* create_node, remove_node and connect_node the labels present are V, and
\* is_connected (h, t) is true exactly for the pairs (h, t) of E, that is
\* when both are present and connect_node (h, t) was called since both were
\* last created; an edge h -> t does not make t -> h connected.
DigraphRefinesLabelPairs ==
    /\ V(nodes) = abstract.V
    /\ \A h, t \in Labels : is_connected(nodes, h, t) <=> <<h, t>> \in abstract.E
    /\ abstract.E \subseteq abstract.V \X abstract.V

\* connect_node has just added an edge h -> t between two vertices, and
\* there is no edge t -> h.
ConnectedOneWay ==
    /\ lastOp.op = "connect_node"
    /\ lastOp.h # lastOp.t
    /\ count_connections(nodes) > lastOp.count0
    /\ is_connected(nodes, lastOp.h, lastOp.t)
    /\ ~is_connected(nodes, lastOp.t, lastOp.h)

\* TEST (Digraph, NodeConnection): the fifteen labels and the twenty-three
\* connect_node calls of the test, and the digraph they build.
TestLabels ==
    <<"A", "B", "C", "D", "E", "F", "G", "H", "I", "J", "K", "L", "M", "N", "O">>

TestArcs ==
    << <<"A", "M">>, <<"C", "F">>, <<"D", "M">>, <<"E", "I">>, <<"F", "C">>,
       <<"F", "L">>, <<"G", "K">>, <<"H", "G">>, <<"H", "C">>, <<"I", "I">>,
       <<"J", "L">>, <<"J", "B">>, <<"K", "H">>, <<"K", "N">>, <<"L", "J">>,
       <<"L", "E">>, <<"M", "A">>, <<"M", "D">>, <<"M", "O">>, <<"N", "J">>,
       <<"O", "N">>, <<"O", "B">>, <<"O", "F">> >>

RECURSIVE TestCreate(_, _)
TestCreate(ns, i) ==
    IF i > Len(TestLabels) THEN ns
    ELSE TestCreate(create_node(ns, TestLabels[i], DefaultData, AddrOf(TestLabels[i])),
                    i + 1)

RECURSIVE TestConnect(_, _)
TestConnect(ns, i) ==
    IF i > Len(TestArcs) THEN ns
    ELSE TestConnect(connect_node(ns, TestArcs[i][1], TestArcs[i][2]), i + 1)

TestDigraph == TestConnect(TestCreate(<<>>, 1), 1)

\* C9: count_connections is the number of distinct (head, tail) pairs that
\* are connected, a self-loop counting once and a repeated connect_node not
\* at all; the twenty-three calls of the test give 23.
CountConnectionsCountsDistinctPairs ==
    /\ count_connections(nodes) = Cardinality(E(nodes))
    /\ \A i \in 1..Len(nodes) :
          node_count_connections(nodes[i].edges) =
              Cardinality({t \in Labels : is_connected(nodes, nodes[i].label, t)})
    /\ count_connections(TestDigraph) = 23

\* connect_node has just been called for a pair that was connected already,
\* on a digraph holding a self-loop and another edge.
ConnectedAgain ==
    /\ lastOp.op = "connect_node"
    /\ is_connected(nodes, lastOp.h, lastOp.t)
    /\ count_connections(nodes) = lastOp.count0
    /\ count_connections(nodes) >= 2
    /\ \E l \in Labels : is_connected(nodes, l, l)

\* C10: what is not found is left alone.  node.disconnect of a vertex or of
\* a label that is not adjacent leaves the adjacency as it is; remove_node of
\* an absent label and connect_node with a missing head or tail leave the
\* digraph as it is; is_connected with a missing label is false.
NotFoundIsNoOp ==
    [][ /\ \A i \in 1..Len(nodes) :
              /\ \A l \in Labels :
                    (\A j \in 1..Len(nodes[i].edges) : LabelOf(nodes, nodes[i].edges[j]) # l)
                        => node_disconnect_label(nodes, nodes[i].edges, l) = nodes[i].edges
              /\ \A l \in Labels :
                    ~node_is_connected(nodes[i].edges, AddrOf(l))
                        => node_disconnect(nodes[i].edges, AddrOf(l)) = nodes[i].edges
        /\ (lastOp'.op = "remove_node" /\ ~Has(nodes, lastOp'.h)) => nodes' = nodes
        /\ (lastOp'.op = "connect_node" /\ (~Has(nodes, lastOp'.h) \/ ~Has(nodes, lastOp'.t)))
              => nodes' = nodes
        /\ \A h, t \in Labels :
              (~Has(nodes, h) \/ ~Has(nodes, t)) => ~is_connected(nodes, h, t) ]_vars

\* remove_node has just been called for a label that is not there, on a
\* digraph that has vertices and edges to lose.
RemovedAbsentLabel ==
    /\ lastOp.op = "remove_node"
    /\ ~Has(nodes, lastOp.h)
    /\ size(nodes) = lastOp.size0
    /\ size(nodes) >= 2
    /\ count_connections(nodes) >= 2

\* ------------------------------------ actions of the forest computation
\* Cap on the number of edges of the digraphs the forest is computed on.
MaxArcs == 3

\* The sequences over S without repetition.
NoDupSeqs(S) ==
    {s \in UNION {[1..n -> S] : n \in 0..Cardinality(S)} :
        \A i, j \in 1..Len(s) : i # j => s[i] # s[j]}

RECURSIVE SumLen(_, _)
SumLen(adj, i) == IF i > Len(adj) THEN 0 ELSE Len(adj[i]) + SumLen(adj, i + 1)

\* create_node called for order[i], order[i + 1], ...
RECURSIVE CreateAll(_, _, _)
CreateAll(ns, order, i) ==
    IF i > Len(order) THEN ns
    ELSE CreateAll(create_node(ns, order[i], DefaultData, AddrOf(order[i])),
                   order, i + 1)

\* connect_node called for the edges adj lists, node by node from edge j of
\* node i on.
RECURSIVE ConnectAll(_, _, _, _, _)
ConnectAll(ns, order, adj, i, j) ==
    IF i > Len(order) THEN ns
    ELSE IF j > Len(adj[i]) THEN ConnectAll(ns, order, adj, i + 1, 1)
    ELSE ConnectAll(connect_node(ns, order[i], adj[i][j]), order, adj, i, j + 1)

\* The digraph that creating the labels of order and then connecting the
\* edges of adj builds.
BuildGraph(order, adj) == ConnectAll(CreateAll(<<>>, order, 1), order, adj, 1, 1)

\* A digraph built through the interface, about to be decomposed.
InitDFF ==
    /\ \E order \in NoDupSeqs(Labels) :
         \E adj \in [1..Len(order) -> NoDupSeqs(Range(order))] :
            /\ SumLen(adj, 1) <= MaxArcs
            /\ nodes = BuildGraph(order, adj)
    /\ lastOp = Call("digraph", "", "", <<>>)
    /\ abstract = [V |-> V(nodes), E |-> E(nodes)]
    /\ ForestIdle
    /\ NodesIdle
    /\ TreeIdle

\* digraph::make_depth_first_forest (), the public overload, on a digraph
\* with at least one node: the snapshot, the first tree, the first call.
\* The public overload starting from labeled_graph.begin().
MakeForestFromFront ==
    /\ dff_pc = "idle"
    /\ nodes # <<>>
    /\ LET lg == make_labeled_graph(nodes)
           current_node_itr == 1
       IN  /\ labeled_graph' = lg
           /\ depth_first_forest' = <<tree_new(lg[current_node_itr].label, DefaultData)>>
           /\ CallOn(<<>>, current_node_itr)
    /\ tree_arcs' = <<>>
    /\ back_arcs' = <<>>
    /\ loops' = <<>>
    /\ fwd_arcs' = <<>>
    /\ cross_arcs' = <<>>
    /\ UNCHANGED <<dvars, nvars, tvars, components>>

MakeForest ==
    /\ dff_pc = "idle"
    /\ nodes # <<>>
    /\ LET lg == make_labeled_graph(nodes)
           current_node_itr == End(lg) - 1
       IN  /\ labeled_graph' = lg
           /\ depth_first_forest' = <<tree_new(lg[current_node_itr].label, DefaultData)>>
           /\ CallOn(<<>>, current_node_itr)
    /\ tree_arcs' = <<>>
    /\ back_arcs' = <<>>
    /\ loops' = <<>>
    /\ fwd_arcs' = <<>>
    /\ cross_arcs' = <<>>
    /\ UNCHANGED <<dvars, nvars, tvars, components>>

\* The public overload on a digraph without nodes: labeled_graph.end() - 1
\* is no element of the empty vector, and the label read through it is
\* whatever lies there, if the read does not fault.
MakeForestEmpty ==
    /\ dff_pc = "idle"
    /\ nodes = <<>>
    /\ labeled_graph' = <<>>
    /\ \/ /\ dff_pc' = "crashed"
          /\ UNCHANGED depth_first_forest
       \/ /\ dff_pc' = "returned"
          /\ depth_first_forest' = <<tree_new(Garbage, DefaultData)>>
    /\ UNCHANGED <<dvars, nvars, tvars, tree_arcs, back_arcs, loops, fwd_arcs, cross_arcs,
                   call_stack, components>>

\* The recursive overload, from its entry to the choice of its branch.
Enter ==
    /\ dff_pc = "running"
    /\ Top.phase = "entry"
    /\ IF labeled_graph[Top.cur].status = "completed"
       THEN LET visited_itr == find_visited(labeled_graph) IN
            IF visited_itr # 0
            THEN /\ CallOn([call_stack EXCEPT ![Len(call_stack)].phase = "resume"],
                           visited_itr)
                 /\ UNCHANGED <<labeled_graph, depth_first_forest>>
            ELSE /\ OpenNewTree
                 /\ ReturnFrom(call_stack)
       ELSE /\ call_stack' = [call_stack EXCEPT ![Len(call_stack)].phase = "loop"]
            /\ UNCHANGED <<labeled_graph, depth_first_forest, dff_pc>>
    /\ UNCHANGED <<dvars, nvars, tvars, tree_arcs, back_arcs, loops, fwd_arcs, cross_arcs, components>>

\* One iteration of the edge loop: the arc is classified and the overload
\* called on its target.
Iterate ==
    /\ dff_pc = "running"
    /\ Top.phase = "loop"
    /\ Top.i <= Len(labeled_graph[Top.cur].edges)
    /\ LET cur == Top.cur
           cur_label == labeled_graph[cur].label
           edge_label == labeled_graph[cur].edges[Top.i]
           itr == find_label(labeled_graph, edge_label)
           arc == <<cur_label, edge_label>>
           back == depth_first_forest[Len(depth_first_forest)]
           class == IF labeled_graph[itr].status = "pristine" THEN "tree"
                    ELSE classify(back, cur, itr, cur_label, edge_label)
       IN  /\ tree_arcs' = IF class = "tree" THEN Append(tree_arcs, arc) ELSE tree_arcs
           /\ depth_first_forest' =
                IF class = "tree"
                THEN [depth_first_forest EXCEPT ![Len(depth_first_forest)] =
                        append_node(@, cur_label, edge_label, DefaultData)]
                ELSE depth_first_forest
           /\ back_arcs' = IF class = "back" THEN Append(back_arcs, arc) ELSE back_arcs
           /\ loops' = IF class = "loop" THEN Append(loops, arc) ELSE loops
           /\ fwd_arcs' = IF class = "fwd" THEN Append(fwd_arcs, arc) ELSE fwd_arcs
           /\ cross_arcs' = IF class = "cross" THEN Append(cross_arcs, arc) ELSE cross_arcs
           /\ CallOn([call_stack EXCEPT ![Len(call_stack)].i = @ + 1], itr)
    /\ UNCHANGED <<dvars, nvars, tvars, labeled_graph, components>>

\* The return of the innermost call: its edge loop is through, or the call
\* it made from the completed branch is back.
Return ==
    /\ dff_pc = "running"
    /\ IF Top.phase = "resume"
       THEN OpenNewTree
       ELSE /\ Top.phase = "loop"
            /\ Top.i > Len(labeled_graph[Top.cur].edges)
            /\ UNCHANGED <<labeled_graph, depth_first_forest>>
    /\ ReturnFrom(call_stack)
    /\ UNCHANGED <<dvars, nvars, tvars, tree_arcs, back_arcs, loops, fwd_arcs, cross_arcs, components>>

\* digraph::scc_from_forest on the forest and arcs make_depth_first_forest
\* left.
SccFromForest ==
    /\ dff_pc = "returned"
    /\ \/ /\ dff_pc' = "crashed"
          /\ UNCHANGED components
       \/ /\ dff_pc' = "scc_returned"
          /\ \E result \in SccOutcomes : components' = result
    /\ UNCHANGED <<dvars, nvars, tvars, labeled_graph, depth_first_forest, tree_arcs, back_arcs,
                   loops, fwd_arcs, cross_arcs, call_stack>>

NextDFF ==
    \/ MakeForest
    \/ MakeForestEmpty
    \/ Enter
    \/ Iterate
    \/ Return
    \/ SccFromForest

SpecDFF == InitDFF /\ [][NextDFF]_vars

\* The trees of the forest that hold a node labelled l.
TreesHolding(l) ==
    {k \in 1..Len(depth_first_forest) : contains_node(depth_first_forest[k], l)}

\* C1: the forest computation terminates on every digraph, cycles and
\* self-loops included: no vertex is entered while a call on it is still
\* active, and the recursion never outgrows the stack.
ForestComputationTerminates ==
    /\ dff_pc # "stack_overflow"
    /\ \A i, j \in 1..Len(call_stack) :
          i # j => call_stack[i].cur # call_stack[j].cur

\* C2: the forest returned covers the vertices exactly once: every vertex of
\* the digraph is a node of exactly one tree, and once in it.
ForestCoversEveryVertexOnce ==
    (dff_pc = "returned" /\ nodes # <<>>) =>
        \A i \in 1..Len(nodes) :
            /\ Cardinality(TreesHolding(nodes[i].label)) = 1
            /\ \A k \in TreesHolding(nodes[i].label) :
                  Cardinality({n \in 1..Len(depth_first_forest[k]) :
                                  depth_first_forest[k][n].label = nodes[i].label}) = 1

\* C3: the components returned partition the vertex set: every vertex is in
\* exactly one component and the components together are the vertex set.
ComponentsPartitionVertices ==
    (dff_pc = "scc_returned" /\ nodes # <<>>) =>
        /\ \A l \in V(nodes) :
              Cardinality({k \in 1..Len(components) : l \in components[k]}) = 1
        /\ UNION {components[k] : k \in 1..Len(components)} = V(nodes)

\* The labels reached from the labels of S along directed edges.
RECURSIVE ReachedFrom(_, _)
ReachedFrom(ns, S) ==
    LET next == S \cup {t \in V(ns) : \E h \in S : is_connected(ns, h, t)}
    IN  IF next = S THEN S ELSE ReachedFrom(ns, next)

Reaches(ns, u, v) == v \in ReachedFrom(ns, {u})

\* C4: two vertices are in the same returned component exactly when each
\* is reachable from the other along directed edges.
ComponentsAreMutualReachability ==
    (dff_pc = "scc_returned" /\ nodes # <<>>) =>
        \A u, v \in V(nodes) :
            (\E k \in 1..Len(components) : u \in components[k] /\ v \in components[k])
                <=> (Reaches(nodes, u, v) /\ Reaches(nodes, v, u))


\* ------------------------------------------- free-standing node objects
\* Three node objects constructed side by side (as a, b, c of the Node tests
\* are), with labels of the caller's choice: the label is no identity here.
ObjAddr(i) == <<"obj", i>>
NodeObjs == 1..3

InitNode ==
    /\ nodes = <<>>
    /\ lastOp = Call("digraph", "", "", <<>>)
    /\ abstract = AbstractEmpty
    /\ ForestIdle
    /\ TreeIdle
    /\ \E lab \in [NodeObjs -> NodeLabels] :
            objects = [i \in NodeObjs |->
                          [addr |-> ObjAddr(i), label |-> lab[i],
                           data |-> DefaultData, edges |-> <<>>]]
    /\ nodeOp = NodeCall("node", 0, <<>>, "", <<>>)

\* v.connect(x)
NodeConnect ==
    \E v \in NodeObjs, x \in NodeObjs :
        LET after == [objects EXCEPT ![v].edges = node_connect(@, objects[x].addr)]
        IN  /\ objects # <<>>
            /\ count_connections(after) <= MaxNodeEdges
            /\ objects' = after
            /\ nodeOp' = NodeCall("connect", v, objects[x].addr, "", objects[v].edges)
            /\ UNCHANGED <<dvars, fvars, tvars>>

\* v.disconnect(x)
NodeDisconnect ==
    \E v \in NodeObjs, x \in NodeObjs :
        /\ objects # <<>>
        /\ objects' = [objects EXCEPT ![v].edges = node_disconnect(@, objects[x].addr)]
        /\ nodeOp' = NodeCall("disconnect", v, objects[x].addr, "", objects[v].edges)
        /\ UNCHANGED <<dvars, fvars, tvars>>

\* v.disconnect(label)
NodeDisconnectLabel ==
    \E v \in NodeObjs, l \in NodeLabels :
        /\ objects # <<>>
        /\ objects' = [objects EXCEPT ![v].edges = node_disconnect_label(objects, @, l)]
        /\ nodeOp' = NodeCall("disconnect_label", v, <<>>, l, objects[v].edges)
        /\ UNCHANGED <<dvars, fvars, tvars>>

NextNode == NodeConnect \/ NodeDisconnect \/ NodeDisconnectLabel

SpecNode == InitNode /\ [][NextNode]_vars

\* C11: node::connect is idempotent and duplicate-free.  v.connect(x) appends
\* x at the end of v's adjacency list and raises count_connections by exactly
\* one when x was not adjacent, and leaves the list as it was when x was
\* adjacent, x = v included; after any sequence of connect and disconnect
\* calls no pointer occurs twice in an adjacency list.
ConnectIsIdempotentAndDuplicateFree ==
    /\ \A v \in 1..Len(objects) :
           Cardinality(Range(objects[v].edges)) = Len(objects[v].edges)
    /\ nodeOp.op = "connect" =>
           LET e0 == nodeOp.edges0
               e == objects[nodeOp.v].edges
           IN  IF nodeOp.x \in Range(e0)
               THEN e = e0
               ELSE /\ e = e0 \o <<nodeOp.x>>
                    /\ node_count_connections(e) = node_count_connections(e0) + 1

\* A node that is adjacent to itself and to another node was connected to
\* itself once more.
ConnectedSelfAgain ==
    /\ nodeOp.op = "connect"
    /\ nodeOp.x = objects[nodeOp.v].addr
    /\ nodeOp.x \in Range(nodeOp.edges0)
    /\ Len(nodeOp.edges0) >= 2
    /\ nodeOp.edges0[1] = nodeOp.x


\* The adjacency list r is e0 without the entries whose pointee carries the
\* label l: the same pointers otherwise, as many fewer as e0 had such
\* entries, in the order they had in e0.
PositionIn(e, p) == CHOOSE i \in 1..Len(e) : e[i] = p

RemovesLabel(e0, r, l) ==
    /\ Range(r) = {p \in Range(e0) : LabelOf(objects, p) # l}
    /\ Len(r) = Len(e0) - Cardinality({i \in 1..Len(e0) : LabelOf(objects, e0[i]) = l})
    /\ \A i \in 1..Len(r) : \A j \in (i + 1)..Len(r) :
           PositionIn(e0, r[i]) < PositionIn(e0, r[j])

\* The orders in which the targets of the adjacency list e can have been
\* connected.
ConnectOrders(e) == {o \in [1..Len(e) -> Range(e)] : Range(o) = Range(e)}

\* C12: node::disconnect(label) removes exactly the adjacency entries whose
\* pointee carries the label and keeps every other entry in its relative
\* order, so count_connections drops by the number of such entries; this is
\* so for every order in which the targets were connected, and the set of
\* targets left does not depend on that order.
DisconnectLabelRemovesExactlyTheLabel ==
    /\ nodeOp.op = "disconnect_label" =>
           RemovesLabel(nodeOp.edges0, objects[nodeOp.v].edges, nodeOp.label)
    /\ \A v \in 1..Len(objects) : \A l \in NodeLabels :
           \A o \in ConnectOrders(objects[v].edges) :
               LET r == node_disconnect_label(objects, o, l)
               IN  /\ RemovesLabel(o, r, l)
                   /\ Range(r) = Range(node_disconnect_label(objects, objects[v].edges, l))

\* A node adjacent to three nodes, the first and the last of them carrying
\* one label, was disconnected from that label: the middle entry is left.
DisconnectedSharedLabel ==
    /\ nodeOp.op = "disconnect_label"
    /\ Len(nodeOp.edges0) = 3
    /\ objects[nodeOp.v].edges = <<nodeOp.edges0[2]>>


\* -------------------------------------------------------- a tree object
InitTree ==
    /\ nodes = <<>>
    /\ lastOp = Call("digraph", "", "", <<>>)
    /\ abstract = AbstractEmpty
    /\ ForestIdle
    /\ NodesIdle
    /\ \E label \in TreeLabels :
           /\ tree_nodes = tree_new(label, DefaultData)
           /\ treeOp = TreeCall("tree", label, label, label, "", <<>>, FALSE)

\* tr.append_node(parent_label, label)
AppendNode ==
    \E parent_label \in TreeLabels, label \in TreeLabels :
        LET after == append_node(tree_nodes, parent_label, label, DefaultData)
        IN  /\ tree_nodes # <<>>
            /\ Len(after) <= MaxTreeSize
            /\ tree_nodes' = after
            /\ treeOp' = TreeCall("append_node", treeOp.made, parent_label, label, "",
                                  tree_nodes, FALSE)
            /\ UNCHANGED <<dvars, fvars, nvars>>

\* tr.path(dst, method)
Path ==
    \E dst \in TreeLabels, method \in {"depth", "breath"} :
        /\ tree_nodes # <<>>
        /\ treeOp' = TreeCall("path", treeOp.made, dst, dst, method, tree_nodes,
                              path(tree_nodes, dst, method))
        /\ UNCHANGED <<dvars, fvars, nvars, tree_nodes>>

\* tr.is_ancestor_of(a, b)
IsAncestorOf ==
    \E a \in TreeLabels, b \in TreeLabels :
        /\ tree_nodes # <<>>
        /\ treeOp' = TreeCall("is_ancestor_of", treeOp.made, a, b, "", tree_nodes,
                              is_ancestor_of(tree_nodes, a, b))
        /\ UNCHANGED <<dvars, fvars, nvars, tree_nodes>>

\* tr.is_descendent_of(a, b)
IsDescendentOf ==
    \E a \in TreeLabels, b \in TreeLabels :
        /\ tree_nodes # <<>>
        /\ treeOp' = TreeCall("is_descendent_of", treeOp.made, a, b, "", tree_nodes,
                              is_descendent_of(tree_nodes, a, b))
        /\ UNCHANGED <<dvars, fvars, nvars, tree_nodes>>

NextTree == AppendNode \/ Path \/ IsAncestorOf \/ IsDescendentOf

SpecTree == InitTree /\ [][NextTree]_vars


\* The trees of the Tree tests, built by the calls the tests make.
RECURSIVE AppendAll(_, _)
AppendAll(t, calls) ==
    IF calls = <<>> THEN t
    ELSE AppendAll(append_node(t, Head(calls)[1], Head(calls)[2], DefaultData), Tail(calls))

TestChain ==
    AppendAll(tree_new("O", DefaultData),
              << <<"O", "N">>, <<"N", "J">>, <<"J", "L">>, <<"L", "E">>, <<"E", "I">> >>)

TestTree2 ==
    AppendAll(tree_new("A", DefaultData),
              << <<"A", "B">>, <<"A", "C">>, <<"A", "D">>, <<"A", "E">>, <<"B", "F">>,
                 <<"C", "G">>, <<"E", "H">>, <<"E", "I">>, <<"F", "J">>, <<"F", "K">>,
                 <<"F", "L">>, <<"H", "M">>, <<"M", "N">> >>)

\* The label l is the label of a node of the tree t.
InTree(t, l) == \E i \in 1..Len(t) : t[i].label = l

\* C13: append_node(parent, label) leaves the tree as it was (same size, same
\* nodes, same edges) when label is the label of a node of the tree, the
\* parent's and the root's included, or when parent is not; otherwise it
\* adds one node, last in the list and without edges, and one edge, last in
\* the parent's adjacency list, so size grows by exactly one.
AppendNodeFrame ==
    /\ treeOp.op = "append_node" =>
           LET t0 == treeOp.nodes0
               t1 == tree_nodes
           IN  IF InTree(t0, treeOp.b) \/ ~InTree(t0, treeOp.a)
               THEN t1 = t0
               ELSE /\ Len(t1) = Len(t0) + 1
                    /\ t1[Len(t1)] = [label |-> treeOp.b, data |-> DefaultData,
                                      edges |-> <<>>]
                    /\ \A i \in 1..Len(t0) :
                           /\ t1[i].label = t0[i].label
                           /\ t1[i].data = t0[i].data
                           /\ t1[i].edges = IF t0[i].label = treeOp.a
                                            THEN t0[i].edges \o <<Len(t1)>>
                                            ELSE t0[i].edges
    /\ Len(TestChain) = 6
    /\ append_node(TestChain, "I", "I", DefaultData) = TestChain

\* A node other than the root was given as its own parent.
AppendedNodeUnderItself ==
    /\ treeOp.op = "append_node"
    /\ treeOp.a = treeOp.b
    /\ InTree(treeOp.nodes0, treeOp.a)
    /\ treeOp.a # treeOp.made
    /\ Len(tree_nodes) = 3

\* The positions reached from the positions S along the edges of t.
RECURSIVE TreeReached(_, _)
TreeReached(t, S) ==
    LET step == S \cup {c \in 1..Len(t) : \E i \in S : c \in Range(t[i].edges)}
    IN  IF step = S THEN S ELSE TreeReached(t, step)

\* The paths of t from the root to position i that visit no node twice.
RootPaths(t, i) ==
    {p \in UNION {[1..k -> 1..Len(t)] : k \in 1..Len(t)} :
        /\ p[1] = root(t)
        /\ p[Len(p)] = i
        /\ \A k \in 1..(Len(p) - 1) : p[k + 1] \in Range(t[p[k]].edges)
        /\ \A j \in 1..Len(p) : \A k \in 1..Len(p) : p[j] = p[k] => j = k}

\* C14: after construction and any sequence of append_node calls the tree is
\* a rooted tree: the root is the node the constructor made, labels are
\* unique, the root has no parent and every other node exactly one (one
\* adjacency entry in the whole tree points to it), no node is reached from
\* one of its children, and every node is reached from the root along
\* exactly one path.
TreeIsRootedTree ==
    tree_nodes # <<>> =>
        LET t == tree_nodes
            Parents(i) == {jk \in (1..Len(t)) \X (1..Len(t)) :
                              /\ jk[2] <= Len(t[jk[1]].edges)
                              /\ t[jk[1]].edges[jk[2]] = i}
        IN  /\ t[root(t)].label = treeOp.made
            /\ \A i \in 1..Len(t) : \A j \in 1..Len(t) : t[i].label = t[j].label => i = j
            /\ \A i \in 1..Len(t) :
                   Cardinality(Parents(i)) = IF i = root(t) THEN 0 ELSE 1
            /\ \A i \in 1..Len(t) : \A k \in 1..Len(t[i].edges) :
                   i \notin TreeReached(t, {t[i].edges[k]})
            /\ TreeReached(t, {root(t)}) = 1..Len(t)
            /\ \A i \in 1..Len(t) : Cardinality(RootPaths(t, i)) = 1

\* The root has two children, and a call asked for the root to be appended
\* below one of them.
AppendedRootBelowChild ==
    /\ treeOp.op = "append_node"
    /\ Len(tree_nodes) = 3
    /\ Len(tree_nodes[1].edges) = 2
    /\ treeOp.b = treeOp.made
    /\ treeOp.a # treeOp.made
    /\ InTree(tree_nodes, treeOp.a)


\* p is the sequence of labels along a path of t from the root to the node
\* labelled dst, or the empty sequence when t has no such node.
IsRootPathTo(t, dst, p) ==
    IF InTree(t, dst)
    THEN \E i \in 1..Len(t) :
            /\ t[i].label = dst
            /\ \E q \in RootPaths(t, i) : p = [k \in 1..Len(q) |-> t[q[k]].label]
    ELSE p = <<>>

\* C15: path(dst, method) returns, for a label dst of the tree, the labels
\* along the root-to-dst path (the root first, dst last, every consecutive
\* pair a parent and one of its children; the one-element sequence for the
\* root itself), and the empty sequence for a label the tree does not hold;
\* on the branching tree of the Search test, path("K") is A, B, F, K and
\* path("M") is A, E, H, M under both methods.
PathIsRootToDst ==
    /\ treeOp.op = "path" => IsRootPathTo(tree_nodes, treeOp.b, treeOp.result)
    /\ (treeOp.op = "path" /\ treeOp.b = treeOp.made) => treeOp.result = <<treeOp.made>>
    /\ tree_nodes # <<>> =>
           \A dst \in TreeLabels : \A method \in {"depth", "breath"} :
               IsRootPathTo(tree_nodes, dst, path(tree_nodes, dst, method))
    /\ \A method \in {"depth", "breath"} :
           /\ path(TestTree2, "K", method) = <<"A", "B", "F", "K">>
           /\ path(TestTree2, "M", method) = <<"A", "E", "H", "M">>

\* The depth-first search was asked for the second child of a root with two
\* children: it went below the first child and came back.
DepthPathToSecondChild ==
    /\ treeOp.op = "path"
    /\ treeOp.method = "depth"
    /\ Len(tree_nodes) = 3
    /\ tree_nodes[1].edges = <<2, 3>>
    /\ treeOp.b = tree_nodes[3].label
    /\ Len(treeOp.result) = 2

\* C16: for every tree built by append_node and every label dst, path(dst,
\* depth) and path(dst, breath) are the same sequence (the empty one for an
\* absent label), and the breadth-first search ends: it takes no more
\* activations than the tree has nodes.  On the chain of the Search test both
\* give O, N, J, L, E, I for path("I").
DepthAndBreathAgree ==
    /\ tree_nodes # <<>> =>
           /\ \A dst \in TreeLabels :
                  path(tree_nodes, dst, "depth") = path(tree_nodes, dst, "breath")
           /\ \A dst \in 1..Len(tree_nodes) :
                  breath_first_search(tree_nodes, dst, <<root(tree_nodes)>>,
                                      <<<<root(tree_nodes), 0>>>>, 1).calls
                      <= Len(tree_nodes)
    /\ treeOp.op = "path" =>
           /\ treeOp.result = path(tree_nodes, treeOp.b, "depth")
           /\ treeOp.result = path(tree_nodes, treeOp.b, "breath")
    /\ path(TestChain, "I", "depth") = <<"O", "N", "J", "L", "E", "I">>
    /\ path(TestChain, "I", "breath") = <<"O", "N", "J", "L", "E", "I">>

\* The breadth-first search was asked for the end of a chain of three nodes.
BreathPathDownChain ==
    /\ treeOp.op = "path"
    /\ treeOp.method = "breath"
    /\ Len(tree_nodes) = 3
    /\ tree_nodes[2].edges = <<3>>
    /\ treeOp.b = tree_nodes[3].label
    /\ Len(treeOp.result) = 3

\* The tree t holds nodes labelled x and y, and the one labelled y is reached
\* from the one labelled x along tree edges (in no step when x = y).
ReachedInTree(t, x, y) ==
    \E i \in 1..Len(t) : \E j \in 1..Len(t) :
        /\ t[i].label = x
        /\ t[j].label = y
        /\ j \in TreeReached(t, {i})

\* C17: is_ancestor_of(a, b) is true exactly when a and b are labels of the
\* tree and b is reached from a along tree edges; is_descendent_of(a, b) is
\* true exactly when both are labels of the tree and a is reached from b;
\* so is_ancestor_of(a, b) = is_descendent_of(b, a) for all labels, and both
\* are false when a label is absent.  On the chain of the Search test
\* is_ancestor_of("N", "E") and is_descendent_of("E", "N") are true.
AncestryIsReachability ==
    /\ tree_nodes # <<>> =>
           \A a \in TreeLabels : \A b \in TreeLabels :
               /\ is_ancestor_of(tree_nodes, a, b) = ReachedInTree(tree_nodes, a, b)
               /\ is_descendent_of(tree_nodes, a, b) = ReachedInTree(tree_nodes, b, a)
               /\ is_ancestor_of(tree_nodes, a, b) = is_descendent_of(tree_nodes, b, a)
               /\ (~InTree(tree_nodes, a) \/ ~InTree(tree_nodes, b)) =>
                      /\ ~is_ancestor_of(tree_nodes, a, b)
                      /\ ~is_descendent_of(tree_nodes, a, b)
    /\ treeOp.op = "is_ancestor_of" =>
           treeOp.result = ReachedInTree(tree_nodes, treeOp.a, treeOp.b)
    /\ treeOp.op = "is_descendent_of" =>
           treeOp.result = ReachedInTree(tree_nodes, treeOp.b, treeOp.a)
    /\ is_ancestor_of(TestChain, "N", "E")
    /\ is_descendent_of(TestChain, "E", "N")

\* is_ancestor_of was asked about a node other than the root and its child,
\* and answered true.
AskedAncestorOfChild ==
    /\ treeOp.op = "is_ancestor_of"
    /\ treeOp.result = TRUE
    /\ Len(tree_nodes) = 3
    /\ tree_nodes[2].edges = <<3>>
    /\ treeOp.a = tree_nodes[2].label
    /\ treeOp.b = tree_nodes[3].label


\* ------------------------------------- the forest: roots and tree arcs
\* The labels of the nodes of the trees before the k-th of the forest f.
HeldBefore(f, k) == {f[ji[1]][ji[2]].label :
                        ji \in {x \in (1..(k - 1)) \X (1..Len(labeled_graph)) :
                                   x[2] <= Len(f[x[1]])}}

\* The forest computation is under way, or over, on a digraph with nodes.
ForestStarted == labeled_graph # <<>> /\ dff_pc \in {"running", "returned"}

\* C18: the roots of the forest follow insertion order: the first tree is
\* rooted at the first-inserted vertex, and every later tree at the
\* earliest-inserted vertex that none of the trees before it holds.
ForestRootsFollowInsertionOrder ==
    ForestStarted =>
        \A k \in 1..Len(depth_first_forest) :
            LET held == HeldBefore(depth_first_forest, k)
                earliest == CHOOSE i \in 1..Len(labeled_graph) :
                                /\ labeled_graph[i].label \notin held
                                /\ \A j \in 1..(i - 1) : labeled_graph[j].label \in held
            IN  /\ \E i \in 1..Len(labeled_graph) : labeled_graph[i].label \notin held
                /\ depth_first_forest[k][root(depth_first_forest[k])].label
                       = labeled_graph[earliest].label

\* The parent -> child edges of the trees of the forest f, as label pairs.
ForestEdges(f) ==
    UNION {UNION {{<<f[k][i].label, f[k][f[k][i].edges[e]].label>> :
                      e \in 1..Len(f[k][i].edges)} :
                  i \in 1..Len(f[k])} :
           k \in 1..Len(f)}

\* C19: while make_depth_first_forest runs and when it has returned, the
\* parent -> child edges of the trees of the forest are exactly the arcs
\* recorded in tree_arcs: every recorded tree arc (u, v) is an edge u -> v of
\* a tree, and every tree edge is a recorded tree arc.
TreeEdgesAreTreeArcs ==
    ForestStarted => ForestEdges(depth_first_forest) = Range(tree_arcs)

\* The arcs traversed so far, in all five classes.
TraversedArcs == tree_arcs \o back_arcs \o loops \o fwd_arcs \o cross_arcs

\* The number of activations of the recursive overload made on the vertex
\* labelled l: the first one if l is the root's label, and one for every
\* arc traversed into l (digraph.hpp:291-300 recurses on every arc).
Expansions(l) ==
    (IF depth_first_forest[1][root(depth_first_forest[1])].label = l THEN 1 ELSE 0)
    + Cardinality({i \in 1..Len(TraversedArcs) : TraversedArcs[i][2] = l})

\* C20: an arc u -> v is recorded as a tree arc only when v was undiscovered
\* and the traversal marks v visited, so the target of a recorded tree arc
\* is not pristine; every vertex is the target of at most one tree arc; and
\* the out-edges of each vertex are expanded at most once.
TreeArcTargetsAreDiscoveredOnce ==
    ForestStarted =>
        /\ \A i \in 1..Len(tree_arcs) :
               labeled_graph[find_label(labeled_graph, tree_arcs[i][2])].status # "pristine"
        /\ \A i \in 1..Len(tree_arcs) : \A j \in 1..Len(tree_arcs) :
               tree_arcs[i][2] = tree_arcs[j][2] => i = j
        /\ \A i \in 1..Len(labeled_graph) : Expansions(labeled_graph[i].label) <= 1


\* ------------------------------------------- the forest: arc classes
\* The class the rule gives the arc u -> v into a discovered vertex, t being
\* the current spanning tree.
ClassByRule(t, u, v) ==
    IF u # v /\ ReachedInTree(t, v, u) THEN "back"
    ELSE IF u = v THEN "loop"
    ELSE IF ReachedInTree(t, u, v) THEN "fwd"
    ELSE "cross"

\* C21: every traversed arc u -> v into a vertex discovered already is put
\* in exactly one class by the rule (back arc if v is a proper ancestor of
\* u in the current tree, loop if u = v, forward arc if v is a strict
\* descendant of u, cross arc otherwise): an arc recorded as a tree arc is
\* the edge that brought its target into the tree, a self-edge is recorded
\* in loops and nowhere else, the arcs of each of the four lists have the
\* class of the list, and the tests the code makes give every traversed
\* arc between vertices of the tree the class the rule gives it.
ArcsClassifiedByRule ==
    ForestStarted =>
        LET t == depth_first_forest[Len(depth_first_forest)]
            others == Range(tree_arcs) \cup Range(back_arcs) \cup Range(fwd_arcs)
                          \cup Range(cross_arcs)
        IN  /\ \A arc \in Range(tree_arcs) : arc \in ForestEdges(depth_first_forest)
            /\ \A arc \in Range(TraversedArcs) :
                   arc[1] = arc[2] => (arc \in Range(loops) /\ arc \notin others)
            /\ \A arc \in Range(back_arcs) : ClassByRule(t, arc[1], arc[2]) = "back"
            /\ \A arc \in Range(loops) : ClassByRule(t, arc[1], arc[2]) = "loop"
            /\ \A arc \in Range(fwd_arcs) : ClassByRule(t, arc[1], arc[2]) = "fwd"
            /\ \A arc \in Range(cross_arcs) : ClassByRule(t, arc[1], arc[2]) = "cross"
            /\ \A arc \in Range(TraversedArcs) :
                   (InTree(t, arc[1]) /\ InTree(t, arc[2])) =>
                       classify(t, find_label(labeled_graph, arc[1]),
                                find_label(labeled_graph, arc[2]), arc[1], arc[2])
                           = ClassByRule(t, arc[1], arc[2])


\* C22: make_depth_first_forest called on a digraph without vertices ends
\* without a failure, having read no vertex, and returns the empty forest.
EmptyDigraphGivesEmptyForest ==
    (nodes = <<>> /\ dff_pc \notin {"idle", "scc_returned"}) =>
        /\ dff_pc = "returned"
        /\ depth_first_forest = <<>>


\* --------------------------------------- the forest of an acyclic digraph
\* A call of the recursive overload that has begun goes on to its next step:
\* the computation is sequential and nothing else can hold it up.
SpecDFFLive ==
    /\ InitDFF
    /\ [][NextDFF]_vars
    /\ WF_vars(Enter)
    /\ WF_vars(Iterate)
    /\ WF_vars(Return)

\* The digraph has a vertex and no directed cycle, a self-loop being one.
NonEmptyAcyclic(ns) ==
    /\ ns # <<>>
    /\ \A h \in V(ns) : \A t \in V(ns) : is_connected(ns, h, t) => ~Reaches(ns, t, h)

\* What holds of the forest of a non-empty acyclic digraph all along: the
\* call stack is never exhausted, there is one tree, rooted at the
\* last-inserted vertex, its edges are edges of the digraph, and once the
\* call has returned its nodes are, once each, the vertices reached from
\* the root along directed edges.
AcyclicForestIsOneTree ==
    (NonEmptyAcyclic(nodes) /\ dff_pc # "idle") =>
        /\ dff_pc # "stack_overflow"
        /\ Len(depth_first_forest) = 1
        /\ LET t == depth_first_forest[1]
                last == nodes[Len(nodes)].label
            IN  /\ t[root(t)].label = last
                /\ ForestEdges(depth_first_forest) \subseteq E(nodes)
                /\ {t[i].label : i \in 1..Len(t)} \subseteq ReachedFrom(nodes, {last})
                /\ Len(t) = Cardinality({t[i].label : i \in 1..Len(t)})
                /\ dff_pc \in {"returned", "scc_returned", "crashed"} =>
                       {t[i].label : i \in 1..Len(t)} = ReachedFrom(nodes, {last})

\* C23: on every non-empty digraph without a directed cycle or self-loop
\* make_depth_first_forest terminates and returns a forest of exactly one
\* tree, whose root is the last-inserted vertex, whose nodes are exactly the
\* vertices reached from that vertex along directed edges, and whose every
\* edge parent -> child is an edge of the digraph.
AcyclicDigraphGivesOneTree ==
    /\ []AcyclicForestIsOneTree
    /\ (NonEmptyAcyclic(nodes) /\ dff_pc = "running") ~> (dff_pc = "returned")

\* The call has returned on the digraph C -> A, C -> B, A -> B with C
\* inserted last: B was met along two paths and is in the tree once.
ReturnedOnDiamond ==
    /\ dff_pc = "returned"
    /\ NonEmptyAcyclic(nodes)
    /\ Len(nodes) = 3
    /\ Cardinality(E(nodes)) = 3
    /\ Len(nodes[Len(nodes)].edges) = 2
    /\ Len(depth_first_forest[1]) = 3

=============================================================================
